---- MODULE Spec2Model ----
(***************************************************************************)
(* Model of tools/box_to_json_counts.py: one run of main() from the        *)
(* reading of the environment to the writing of data.json.                 *)
(*                                                                         *)
(* Strings that the program trims, lower-cases, compares or parses are     *)
(* sequences of one-character strings, so that str.strip, str.lower,       *)
(* json.loads and pandas.to_datetime are computed and not assumed.         *)
(* A DataFrame is a record [columns, rows]; a row is a sequence of cells   *)
(* aligned with the columns; a cell is a record [t, s, y, m, d] with       *)
(* t = "str" (text s), "nan" (missing), "ts" (Timestamp y-m-d) or "nat".   *)
(***************************************************************************)
EXTENDS Integers, Sequences, FiniteSets, TLC

\* ------------------------------------------------------------------ bounds
MaxRows == 2

\* ----------------------------------------------------------- characters
UpperAlpha ==
  <<"A","B","C","D","E","F","G","H","I","J","K","L","M",
    "N","O","P","Q","R","S","T","U","V","W","X","Y","Z">>

LowerAlpha ==
  <<"a","b","c","d","e","f","g","h","i","j","k","l","m",
    "n","o","p","q","r","s","t","u","v","w","x","y","z">>

DigitChars == <<"0","1","2","3","4","5","6","7","8","9">>

Whitespace == {" ", "\t", "\n"}

\* str.lower on one character
LowerChar(c) ==
  IF \E i \in 1..26 : UpperAlpha[i] = c
  THEN LowerAlpha[CHOOSE i \in 1..26 : UpperAlpha[i] = c]
  ELSE c

\* str.lower
Lower(s) == [i \in 1..Len(s) |-> LowerChar(s[i])]

\* str.strip: drops the leading and trailing whitespace
Strip(s) ==
  LET keep == {i \in 1..Len(s) : s[i] \notin Whitespace}
  IN IF keep = {} THEN <<>>
     ELSE LET lo == CHOOSE i \in keep : \A j \in keep : i <= j
              hi == CHOOSE i \in keep : \A j \in keep : j <= i
          IN SubSeq(s, lo, hi)

StartsWith(s, p) == Len(s) >= Len(p) /\ SubSeq(s, 1, Len(p)) = p

EndsWith(s, p) == Len(s) >= Len(p) /\ SubSeq(s, Len(s) - Len(p) + 1, Len(s)) = p

IsDigit(c) == \E i \in 1..10 : DigitChars[i] = c

DigitVal(c) == (CHOOSE i \in 1..10 : DigitChars[i] = c) - 1

DigitChar(n) == DigitChars[n + 1]

\* ----------------------------------------------------------------- cells
NaN == [t |-> "nan", s |-> <<>>, y |-> 0, m |-> 0, d |-> 0]

NaT == [t |-> "nat", s |-> <<>>, y |-> 0, m |-> 0, d |-> 0]

Str(s) == [t |-> "str", s |-> s, y |-> 0, m |-> 0, d |-> 0]

Timestamp(y, m, d) == [t |-> "ts", s |-> <<>>, y |-> y, m |-> m, d |-> d]

\* pd.isna on a cell
IsNa(c) == c.t \in {"nan", "nat"}

TwoDigits(n) == <<DigitChar(n \div 10), DigitChar(n % 10)>>

FourDigits(n) ==
  <<DigitChar(n \div 1000), DigitChar((n \div 100) % 10),
    DigitChar((n \div 10) % 10), DigitChar(n % 10)>>

\* Series.astype(str) on one cell of an object column: str(value)
AsTypeStr(c) ==
  CASE c.t = "str" -> c.s
    [] c.t = "nan" -> <<"n","a","n">>
    [] c.t = "nat" -> <<"N","a","T">>
    [] c.t = "ts"  -> FourDigits(c.y) \o <<"-">> \o TwoDigits(c.m) \o <<"-">>
                      \o TwoDigits(c.d) \o <<" ","0","0",":","0","0",":","0","0">>

IsLeap(y) == (y % 4 = 0 /\ y % 100 # 0) \/ y % 400 = 0

DaysInMonth(y, m) ==
  CASE m \in {4, 6, 9, 11} -> 30
    [] m = 2 -> IF IsLeap(y) THEN 29 ELSE 28
    [] OTHER -> 31

\* the text forms the model feeds to the date parser: YYYY-MM-DD
IsIsoDate(s) ==
  /\ Len(s) = 10
  /\ s[5] = "-" /\ s[8] = "-"
  /\ \A i \in {1, 2, 3, 4, 6, 7, 9, 10} : IsDigit(s[i])
  /\ LET y == 1000 * DigitVal(s[1]) + 100 * DigitVal(s[2])
               + 10 * DigitVal(s[3]) + DigitVal(s[4])
         m == 10 * DigitVal(s[6]) + DigitVal(s[7])
         d == 10 * DigitVal(s[9]) + DigitVal(s[10])
     IN y >= 1 /\ m \in 1..12 /\ d >= 1 /\ d <= DaysInMonth(y, m)

\* pd.to_datetime(..., errors="coerce") on one cell
ToDatetimeCell(c) ==
  CASE c.t = "ts" -> c
    [] c.t \in {"nan", "nat"} -> NaT
    [] c.t = "str" ->
         IF IsIsoDate(c.s)
         THEN Timestamp(1000 * DigitVal(c.s[1]) + 100 * DigitVal(c.s[2])
                          + 10 * DigitVal(c.s[3]) + DigitVal(c.s[4]),
                        10 * DigitVal(c.s[6]) + DigitVal(c.s[7]),
                        10 * DigitVal(c.s[9]) + DigitVal(c.s[10]))
         ELSE NaT

\* ------------------------------------------------------ DataFrame helpers
NoFrame == [kind |-> "none"]

Frame(cols, rows) == [kind |-> "frame", columns |-> cols, rows |-> rows]

\* pd.read_excel(sheet_name=None): a dict of DataFrames keyed by sheet name
SheetDict(sheets) == [kind |-> "dict", sheets |-> sheets]

\* positions of the columns labelled name
ColIdx(f, name) == {i \in 1..Len(f.columns) : f.columns[i] = name}

\* name in df.columns
HasCol(f, name) == ColIdx(f, name) # {}

\* df[name] is a Series only when the label is unique; with a repeated
\* label it is a DataFrame, which has no .str and cannot be given to
\* pd.to_datetime as a column of dates
IsSeries(f, name) == Cardinality(ColIdx(f, name)) = 1

\* df[name] as a sequence of cells (the label is unique)
Column(f, name) ==
  LET i == CHOOSE j \in ColIdx(f, name) : TRUE
  IN [r \in 1..Len(f.rows) |-> f.rows[r][i]]

RECURSIVE SelectIdx(_, _, _)
\* the subsequence of rows at the positions in keep, in order
SelectIdx(rows, keep, i) ==
  IF i > Len(rows) THEN <<>>
  ELSE (IF i \in keep THEN <<rows[i]>> ELSE <<>>) \o SelectIdx(rows, keep, i + 1)

\* df[mask] with the scan of the rows started one row late
BoolIndexOffByOne(f, keep) == Frame(f.columns, SelectIdx(f.rows, keep, 2))

\* df[mask]
BoolIndex(f, keep) == Frame(f.columns, SelectIdx(f.rows, keep, 1))

\* Series.astype(str).str.strip()
StrStrip(col) == [r \in 1..Len(col) |-> Strip(AsTypeStr(col[r]))]

\* Series.astype(str).str.strip().str.lower()
StrStripLower(col) == [r \in 1..Len(col) |-> Lower(Strip(AsTypeStr(col[r])))]

\* .eq(target) as the set of positions where the mask is True
EqMask(col, target) == {r \in 1..Len(col) : col[r] = target}

\* Series.replace({"nan": ""})
ReplaceNan(col) ==
  [r \in 1..Len(col) |-> IF col[r] = <<"n","a","n">> THEN <<>> ELSE col[r]]

\* value_counts that leaves the empty key out, as if missing were dropped
ValueCountsDropEmpty(col) ==
  [k \in {col[r] : r \in 1..Len(col)} \ {<<>>} |->
     Cardinality({r \in 1..Len(col) : col[r] = k})]

\* Series.value_counts(dropna=False).to_dict()
ValueCounts(col) ==
  [k \in {col[r] : r \in 1..Len(col)} |->
     Cardinality({r \in 1..Len(col) : col[r] = k})]

\* Series.dt.year.eq(year): NaT has no year and compares False
YearMask(col, year) == {r \in 1..Len(col) : col[r].t = "ts" /\ col[r].y = year}

\* DataFrame.fillna(""): missing cells (NaN, NaT) become the empty string
FillNa(f) ==
  Frame(f.columns,
        [r \in 1..Len(f.rows) |->
           [i \in 1..Len(f.columns) |->
              IF IsNa(f.rows[r][i]) THEN Str(<<>>) ELSE f.rows[r][i]]])

\* DataFrame.to_dict(orient="records"): one mapping per row, column -> value
\* (with a repeated label the last column wins)
ToRecords(f) ==
  [r \in 1..Len(f.rows) |->
     [c \in {f.columns[i] : i \in 1..Len(f.columns)} |->
        LET last == CHOOSE i \in ColIdx(f, c) : \A j \in ColIdx(f, c) : j <= i
        IN f.rows[r][last]]]

\* df.columns = [str(c).strip() for c in df.columns]
NormalizeColumns(f) ==
  Frame([i \in 1..Len(f.columns) |-> Strip(f.columns[i])], f.rows)

\* df with df[name] replaced by pd.to_datetime(df[name], errors="coerce")
WithDatetime(f, name) ==
  LET i == CHOOSE j \in ColIdx(f, name) : TRUE
  IN Frame(f.columns,
           [r \in 1..Len(f.rows) |->
              [k \in 1..Len(f.columns) |->
                 IF k = i THEN ToDatetimeCell(f.rows[r][k]) ELSE f.rows[r][k]]])

\* json.dump accepts str, int and None; a pandas Timestamp is not serializable
JsonSerializable(records) ==
  \A r \in 1..Len(records) : \A c \in DOMAIN records[r] : records[r][c].t = "str"

\* json.loads on the documents the model supplies: an empty object or an
\* integer literal, surrounded by optional whitespace
IsValidJson(s) ==
  LET b == Strip(s)
  IN \/ b = <<"{", "}">>
     \/ /\ Len(b) > 0
        /\ \A i \in 1..Len(b) : IsDigit(b[i])
        /\ (Len(b) = 1 \/ b[1] # "0")

\* ------------------------------------------------------ program constants
\* os.getenv("COL_STATUS", "Status") and friends, at their defaults
col_status == <<"S","t","a","t","u","s">>

col_lo == <<"L","o","a","n"," ","O","f","f","i","c","e","r">>

col_closing == <<"C","l","o","s","i","n","g"," ","D","a","t","e">>

sClosedLower == <<"c","l","o","s","e","d">>

sClearingLower ==
  <<"c","l","e","a","r","i","n","g"," ","c","o","n","d","i","t","i","o","n","s">>

sAwaitingLower == <<"a","w","a","i","t","i","n","g"," ","c","t","c">>

dotJson == <<".","j","s","o","n">>

Slash == <<"/">>

\* ------------------------------------------------------------ the inputs
\* an environment variable: unset, or set to a text
Unset == [set |-> FALSE, v |-> <<>>]

SetTo(v) == [set |-> TRUE, v |-> v]

sJane == <<"J","a","n","e">>

sSheet1 == <<"S","h","e","e","t","1">>

sNotes == <<"N","o","t","e","s">>

sConfigPath == <<"/","c",".","j","s","o","n">>

FileIdValues == {Unset, SetTo(<<>>), SetTo(<<"4","2"," ">>)}

UserIdValues == {Unset, SetTo(<<>>), SetTo(<<"7">>)}

LoNameValues == {Unset, SetTo(<<" "," ">>), SetTo(<<" ">> \o sJane \o <<" ">>)}

SheetNameValues == {Unset, SetTo(sSheet1), SetTo(<<"Q","4">>)}

\* BOX_CONFIG_JSON together with the files on disk: files is a set of
\* [path, content] records
ConfigCases ==
  { [var |-> Unset, files |-> {}],
    [var |-> SetTo(<<>>), files |-> {}],
    [var |-> SetTo(<<" ","{","}","\n">>), files |-> {}],
    [var |-> SetTo(<<"{">>), files |-> {}],
    [var |-> SetTo(sConfigPath), files |-> {}],
    [var |-> SetTo(sConfigPath),
     files |-> {[path |-> sConfigPath, content |-> <<"{","}">>]}],
    [var |-> SetTo(sConfigPath),
     files |-> {[path |-> sConfigPath, content |-> <<"{">>]}] }

Environments ==
  [BOX_FILE_ID : FileIdValues, BOX_USER_ID : UserIdValues,
   LO_NAME : LoNameValues, SHEET_NAME : SheetNameValues, cfg : ConfigCases]

\* rows of the sheet as (status, owner, closing date) cells
RowPool ==
  { [s |-> Str(<<"C","l","o","s","e","d">>), o |-> Str(sJane),
     c |-> Timestamp(2026, 3, 1)],
    [s |-> Str(<<" ","c","l","o","s","e","d"," ">>),
     o |-> Str(<<" ","J","A","N","E"," ">>),
     c |-> Str(<<"2","0","2","5","-","1","2","-","3","1">>)],
    [s |-> Str(<<"C","L","O","S","E","D">>), o |-> Str(<<"B","o","b">>),
     c |-> Str(<<"T","B","D">>)],
    [s |-> Str(<<"A","w","a","i","t","i","n","g"," ","C","T","C">>),
     o |-> Str(sJane), c |-> Str(<<"T","B","D">>)],
    [s |-> Str(<<" ">> \o sClearingLower), o |-> NaN, c |-> NaN],
    [s |-> NaN, o |-> Str(<<"j","a","n","e"," ">>),
     c |-> Str(<<"2","0","2","6","-","0","1","-","1","5">>)] }

\* header rows of the sheet: the raw label of each column and the field of
\* the pool row it holds
Headers ==
  { <<[n |-> col_status, f |-> "s"], [n |-> col_lo, f |-> "o"],
      [n |-> col_closing, f |-> "c"]>>,
    <<[n |-> <<" ">> \o col_status \o <<" ">>, f |-> "s"],
      [n |-> col_lo \o <<" ">>, f |-> "o"],
      [n |-> <<" ">> \o col_closing, f |-> "c"]>>,
    <<[n |-> col_status, f |-> "s"], [n |-> col_lo, f |-> "o"]>>,
    <<[n |-> col_status, f |-> "s"], [n |-> col_closing, f |-> "c"]>>,
    <<[n |-> Lower(col_status), f |-> "s"], [n |-> col_lo, f |-> "o"],
      [n |-> col_closing, f |-> "c"]>>,
    <<[n |-> col_lo, f |-> "o"], [n |-> col_closing, f |-> "c"]>>,
    <<[n |-> col_status, f |-> "s"], [n |-> <<" ">> \o col_status, f |-> "s"],
      [n |-> col_closing, f |-> "c"]>>,
    <<[n |-> col_status, f |-> "s"], [n |-> col_closing, f |-> "c"],
      [n |-> col_closing \o <<" ">>, f |-> "c"]>>,
    <<[n |-> col_status, f |-> "s"], [n |-> col_lo, f |-> "o"],
      [n |-> <<" ">> \o col_lo, f |-> "o"]>> }

RowSeqs == UNION {[1..n -> RowPool] : n \in 0..MaxRows}

\* the sheet with header h and the rows rs, as read_excel returns it
SheetFrame(h, rs) ==
  Frame([i \in 1..Len(h) |-> h[i].n],
        [r \in 1..Len(rs) |-> [i \in 1..Len(h) |-> rs[r][h[i].f]]])

\* the workbooks the remote store may hold: the data sheet first, then a
\* second sheet of notes
Workbooks ==
  { <<[name |-> sSheet1, frame |-> SheetFrame(h, rs)],
      [name |-> sNotes, frame |-> Frame(<<sNotes>>, <<>>)]>> :
    h \in Headers, rs \in RowSeqs }

\* datetime.now().year
Years == {2025, 2026}

\* ------------------------------------------------------------- the state
VARIABLES
  pc,                      \* position in main() / the __main__ handler
  env,                     \* process environment and files on disk
  box_file_id, box_user_id, lo_name, sheet_name, config,
  buf,                     \* the downloaded workbook
  df, df_lo, current_year,
  counts_by_status, closed_count_this_year, clearing_rows, awaiting_ctc_rows,
  out_file,                \* data.json
  stdout, stderr, exit_status,
  err,                     \* the exception in flight
  trace                    \* the steps executed so far, in order

vars ==
  <<pc, env, box_file_id, box_user_id, lo_name, sheet_name, config, buf, df,
    df_lo, current_year, counts_by_status, closed_count_this_year,
    clearing_rows, awaiting_ctc_rows, out_file, stdout, stderr, exit_status,
    err, trace>>

None == [some |-> FALSE, v |-> 0]

Some(n) == [some |-> TRUE, v |-> n]

NoErr == [type |-> "none", msg |-> "", key |-> ""]

Exc(type, msg, key) == [type |-> type, msg |-> msg, key |-> key]

Init ==
  /\ pc = "file_id"
  /\ env \in Environments
  /\ box_file_id = <<>>
  /\ box_user_id = <<>>
  /\ lo_name = <<>>
  /\ sheet_name = Unset
  /\ config = [loaded |-> FALSE, doc |-> <<>>]
  /\ buf = <<>>
  /\ df = NoFrame
  /\ df_lo = NoFrame
  /\ current_year = 0
  /\ counts_by_status = <<>>
  /\ closed_count_this_year = None
  /\ clearing_rows = <<>>
  /\ awaiting_ctc_rows = <<>>
  /\ out_file = [state |-> "untouched", content |-> <<>>]
  /\ stdout = <<>>
  /\ stderr = <<>>
  /\ exit_status = "running"
  /\ err = NoErr
  /\ trace = <<>>

\* `if v is None`: an empty value passes
MissingEnvNoneOnly(var) == ~var.set

\* `if not v` in _require_env: the variable is unset or empty
MissingEnv(var) == ~var.set \/ var.v = <<>>

\* raise: control leaves main() for the handler of the __main__ block
Raise(step, e) ==
  /\ pc' = "raised"
  /\ err' = e
  /\ trace' = Append(trace, step)

\* fall through to the next statement
Goto(step, next) ==
  /\ pc' = next
  /\ err' = err
  /\ trace' = Append(trace, step)

MissingVar(key) == Exc("RuntimeError", "Missing required env var", key)

\* box_file_id = _require_env("BOX_FILE_ID").strip()
ReadFileId ==
  /\ pc = "file_id"
  /\ IF MissingEnv(env.BOX_FILE_ID)
     THEN /\ Raise("file_id", MissingVar("BOX_FILE_ID"))
          /\ UNCHANGED box_file_id
     ELSE /\ box_file_id' = Strip(env.BOX_FILE_ID.v)
          /\ Goto("file_id", "user_id")
  /\ UNCHANGED <<env, box_user_id, lo_name, sheet_name, config, buf, df, df_lo,
                 current_year, counts_by_status, closed_count_this_year,
                 clearing_rows, awaiting_ctc_rows, out_file, stdout, stderr,
                 exit_status>>

\* box_user_id = _require_env("BOX_USER_ID").strip()
ReadUserId ==
  /\ pc = "user_id"
  /\ IF MissingEnv(env.BOX_USER_ID)
     THEN /\ Raise("user_id", MissingVar("BOX_USER_ID"))
          /\ UNCHANGED box_user_id
     ELSE /\ box_user_id' = Strip(env.BOX_USER_ID.v)
          /\ Goto("user_id", "options")
  /\ UNCHANGED <<env, box_file_id, lo_name, sheet_name, config, buf, df, df_lo,
                 current_year, counts_by_status, closed_count_this_year,
                 clearing_rows, awaiting_ctc_rows, out_file, stdout, stderr,
                 exit_status>>

\* lo_name = os.getenv("LO_NAME", "").strip(), and the column names
ReadOptions ==
  /\ pc = "options"
  /\ lo_name' = Strip(IF env.LO_NAME.set THEN env.LO_NAME.v ELSE <<>>)
  /\ Goto("options", "config")
  /\ UNCHANGED <<env, box_file_id, box_user_id, sheet_name, config, buf, df,
                 df_lo, current_year, counts_by_status, closed_count_this_year,
                 clearing_rows, awaiting_ctc_rows, out_file, stdout, stderr,
                 exit_status>>

\* os.path.exists(path)
PathExists(path) == \E f \in env.cfg.files : f.path = path

FileContent(path) == (CHOOSE f \in env.cfg.files : f.path = path).content

\* the outcome of _parse_box_config(): the exception it raises (NoErr when
\* it returns) and the text of the document it parsed
ParseBoxConfigResult ==
  IF MissingEnv(env.cfg.var)
  THEN [exc |-> MissingVar("BOX_CONFIG_JSON"), doc |-> <<>>]
  ELSE LET raw == Strip(env.cfg.var.v)
       IN IF (EndsWith(raw, dotJson) \/ StartsWith(raw, Slash)) /\ PathExists(raw)
          THEN IF IsValidJson(FileContent(raw))
               THEN [exc |-> NoErr, doc |-> FileContent(raw)]
               ELSE [exc |-> Exc("JSONDecodeError", "Expecting value", ""),
                     doc |-> <<>>]
          ELSE IF IsValidJson(raw)
               THEN [exc |-> NoErr, doc |-> raw]
               ELSE [exc |-> Exc("RuntimeError",
                                 "BOX_CONFIG_JSON is not valid JSON",
                                 "BOX_CONFIG_JSON"),
                     doc |-> <<>>]

\* config = _parse_box_config()
ParseBoxConfig ==
  /\ pc = "config"
  /\ LET res == ParseBoxConfigResult
     IN IF res.exc # NoErr
        THEN /\ Raise("config", res.exc)
             /\ UNCHANGED config
        ELSE /\ config' = [loaded |-> TRUE, doc |-> res.doc]
             /\ Goto("config", "auth")
  /\ UNCHANGED <<env, box_file_id, box_user_id, lo_name, sheet_name, buf, df,
                 df_lo, current_year, counts_by_status, closed_count_this_year,
                 clearing_rows, awaiting_ctc_rows, out_file, stdout, stderr,
                 exit_status>>

\* JWTAuth.from_settings_dictionary, authenticate_user, client.user().get():
\* the remote service accepts or refuses
Authenticate ==
  /\ pc = "auth"
  /\ \E ok \in BOOLEAN :
       IF ok
       THEN /\ stdout' = Append(stdout, [line |-> "AUTHENTICATED AS", rows |-> 0])
            /\ Goto("auth", "download")
       ELSE /\ Raise("auth", Exc("BoxAPIException", "authentication failed", ""))
            /\ UNCHANGED stdout
  /\ UNCHANGED <<env, box_file_id, box_user_id, lo_name, sheet_name, config, buf,
                 df, df_lo, current_year, counts_by_status,
                 closed_count_this_year, clearing_rows, awaiting_ctc_rows,
                 out_file, stderr, exit_status>>

\* client.file(box_file_id).download_to(buf)
Download ==
  /\ pc = "download"
  /\ \/ \E wb \in Workbooks :
          /\ buf' = wb
          /\ Goto("download", "read_excel")
     \/ /\ Raise("download", Exc("BoxAPIException", "download failed", ""))
        /\ UNCHANGED buf
  /\ UNCHANGED <<env, box_file_id, box_user_id, lo_name, sheet_name, config, df,
                 df_lo, current_year, counts_by_status, closed_count_this_year,
                 clearing_rows, awaiting_ctc_rows, out_file, stdout, stderr,
                 exit_status>>

\* pd.read_excel(buf, sheet_name=name): with name None every sheet is read
\* and a dict keyed by sheet name is returned; with a name, that sheet
ReadExcelResult(wb, name) ==
  IF ~name.set
  THEN SheetDict(wb)
  ELSE IF \E i \in 1..Len(wb) : wb[i].name = name.v
       THEN wb[CHOOSE i \in 1..Len(wb) : wb[i].name = name.v].frame
       ELSE NoFrame

\* sheet_name = os.getenv("SHEET_NAME", None); df = pd.read_excel(...)
ReadExcel ==
  /\ pc = "read_excel"
  /\ sheet_name' = env.SHEET_NAME
  /\ LET res == ReadExcelResult(buf, env.SHEET_NAME)
     IN IF res.kind = "none"
        THEN /\ Raise("read_excel", Exc("ValueError", "Worksheet not found", ""))
             /\ UNCHANGED df
        ELSE /\ df' = res
             /\ Goto("read_excel", "normalize")
  /\ UNCHANGED <<env, box_file_id, box_user_id, lo_name, config, buf, df_lo,
                 current_year, counts_by_status, closed_count_this_year,
                 clearing_rows, awaiting_ctc_rows, out_file, stdout, stderr,
                 exit_status>>

\* df.columns = [str(c).strip() for c in df.columns]: a dict has no .columns
NormalizeCols ==
  /\ pc = "normalize"
  /\ IF df.kind = "dict"
     THEN /\ Raise("normalize",
                   Exc("AttributeError", "'dict' object has no attribute 'columns'", ""))
          /\ UNCHANGED df
     ELSE /\ df' = NormalizeColumns(df)
          /\ Goto("normalize", "check")
  /\ UNCHANGED <<env, box_file_id, box_user_id, lo_name, sheet_name, config, buf,
                 df_lo, current_year, counts_by_status, closed_count_this_year,
                 clearing_rows, awaiting_ctc_rows, out_file, stdout, stderr,
                 exit_status>>

SchemaError == Exc("RuntimeError", "Expected column not found", "Status")

\* for needed in [col_status]: if needed not in df.columns: raise
CheckColumns ==
  /\ pc = "check"
  /\ IF ~HasCol(df, col_status)
     THEN Raise("check", SchemaError)
     ELSE Goto("check", "filter")
  /\ UNCHANGED <<env, box_file_id, box_user_id, lo_name, sheet_name, config, buf,
                 df, df_lo, current_year, counts_by_status,
                 closed_count_this_year, clearing_rows, awaiting_ctc_rows,
                 out_file, stdout, stderr, exit_status>>

NoStr == Exc("AttributeError", "'DataFrame' object has no attribute 'str'", "")

\* `lo_name and col_lo in df.columns`
FilterApplies(f, name) == name # <<>> /\ HasCol(f, col_lo)

\* a filter that keeps no row when the owner column is absent
LoFilterStrictOwner(f, name) ==
  IF name # <<>>
  THEN IF HasCol(f, col_lo)
       THEN BoolIndex(f, EqMask(StrStripLower(Column(f, col_lo)), Lower(name)))
       ELSE Frame(f.columns, <<>>)
  ELSE f

\* df[df[col_lo].astype(str).str.strip().str.lower() == lo_name.lower()]
\* when the filter applies, df otherwise
LoFilter(f, name) ==
  IF FilterApplies(f, name)
  THEN BoolIndex(f, EqMask(StrStripLower(Column(f, col_lo)), Lower(name)))
  ELSE f

\* Optional filtering by LO
FilterLO ==
  /\ pc = "filter"
  /\ IF FilterApplies(df, lo_name) /\ ~IsSeries(df, col_lo)
     THEN /\ Raise("filter", NoStr)
          /\ UNCHANGED df_lo
     ELSE /\ df_lo' = LoFilter(df, lo_name)
          /\ Goto("filter", "closing")
  /\ UNCHANGED <<env, box_file_id, box_user_id, lo_name, sheet_name, config, buf,
                 df, current_year, counts_by_status, closed_count_this_year,
                 clearing_rows, awaiting_ctc_rows, out_file, stdout, stderr,
                 exit_status>>

\* Try parsing closing date (if present); now = datetime.now()
ParseClosing ==
  /\ pc = "closing"
  /\ IF HasCol(df_lo, col_closing) /\ ~IsSeries(df_lo, col_closing)
     THEN /\ Raise("closing",
                   Exc("ValueError", "to assemble mappings requires year, month, day", ""))
          /\ UNCHANGED <<df_lo, current_year>>
     ELSE /\ df_lo' = IF HasCol(df_lo, col_closing)
                      THEN WithDatetime(df_lo, col_closing)
                      ELSE df_lo
          /\ \E y \in Years : current_year' = y
          /\ Goto("closing", "counts")
  /\ UNCHANGED <<env, box_file_id, box_user_id, lo_name, sheet_name, config, buf,
                 df, counts_by_status, closed_count_this_year, clearing_rows,
                 awaiting_ctc_rows, out_file, stdout, stderr, exit_status>>

\* df_lo[col_status].astype(str).str.strip().replace({"nan": ""})
\*   .value_counts(dropna=False).to_dict()
CountsOf(f) == ValueCounts(ReplaceNan(StrStrip(Column(f, col_status))))

CountsByStatus ==
  /\ pc = "counts"
  /\ IF ~IsSeries(df_lo, col_status)
     THEN /\ Raise("counts", NoStr)
          /\ UNCHANGED counts_by_status
     ELSE /\ counts_by_status' = CountsOf(df_lo)
          /\ Goto("counts", "closed")
  /\ UNCHANGED <<env, box_file_id, box_user_id, lo_name, sheet_name, config, buf,
                 df, df_lo, current_year, closed_count_this_year, clearing_rows,
                 awaiting_ctc_rows, out_file, stdout, stderr, exit_status>>

\* closed_count_this_year initialised to 0 instead of None
ClosedCountOfZeroDefault(f, year) ==
  IF HasCol(f, col_closing)
  THEN Some(Cardinality(EqMask(StrStripLower(Column(f, col_status)), sClosedLower)
                          \cap YearMask(Column(f, col_closing), year)))
  ELSE Some(0)

\* closed_mask | year_mask instead of closed_mask & year_mask
ClosedCountOfEitherMask(f, year) ==
  IF HasCol(f, col_closing)
  THEN Some(Cardinality(EqMask(StrStripLower(Column(f, col_status)), sClosedLower)
                          \cup YearMask(Column(f, col_closing), year)))
  ELSE None

\* closed_count_this_year: None, or int((closed_mask & year_mask).sum())
ClosedCountOf(f, year) ==
  IF HasCol(f, col_closing)
  THEN Some(Cardinality(EqMask(StrStripLower(Column(f, col_status)), sClosedLower)
                          \cap YearMask(Column(f, col_closing), year)))
  ELSE None

ClosedCount ==
  /\ pc = "closed"
  /\ closed_count_this_year' = ClosedCountOf(df_lo, current_year)
  /\ Goto("closed", "details")
  /\ UNCHANGED <<env, box_file_id, box_user_id, lo_name, sheet_name, config, buf,
                 df, df_lo, current_year, counts_by_status, clearing_rows,
                 awaiting_ctc_rows, out_file, stdout, stderr, exit_status>>

\* df_lo[mask].fillna("").to_dict(orient="records") for one focus status
DetailRowsOf(f, target) ==
  ToRecords(FillNa(BoolIndex(f, EqMask(StrStripLower(Column(f, col_status)), target))))

DetailRows ==
  /\ pc = "details"
  /\ IF HasCol(df_lo, col_status)
     THEN /\ clearing_rows' = DetailRowsOf(df_lo, sClearingLower)
          /\ awaiting_ctc_rows' = DetailRowsOf(df_lo, sAwaitingLower)
     ELSE /\ clearing_rows' = <<>>
          /\ awaiting_ctc_rows' = <<>>
  /\ Goto("details", "write")
  /\ UNCHANGED <<env, box_file_id, box_user_id, lo_name, sheet_name, config, buf,
                 df, df_lo, current_year, counts_by_status,
                 closed_count_this_year, out_file, stdout, stderr, exit_status>>

\* the output dict of main()
Output ==
  [meta |-> [generated_at |-> current_year,
             box_file_id |-> box_file_id,
             box_user_id |-> box_user_id,
             loan_officer_filter |->
               IF lo_name # <<>> THEN [some |-> TRUE, v |-> lo_name]
               ELSE [some |-> FALSE, v |-> <<>>],
             sheet_name |-> sheet_name],
   kpis |-> [closed_count_current_year |-> closed_count_this_year,
             counts_by_status |-> counts_by_status,
             clearing_conditions_count |-> Len(clearing_rows),
             awaiting_ctc_count |-> Len(awaiting_ctc_rows)],
   tables |-> [clearing_conditions |-> clearing_rows,
               awaiting_ctc |-> awaiting_ctc_rows]]

\* with open(out_path, "w") as f: json.dump(output, f, indent=2)
\* open() truncates data.json; json.dump raises TypeError on a Timestamp
\* after part of the document has been written
WriteOutput ==
  /\ pc = "write"
  /\ IF JsonSerializable(clearing_rows) /\ JsonSerializable(awaiting_ctc_rows)
     THEN /\ out_file' = [state |-> "written", content |-> Output]
          /\ Goto("write", "print")
     ELSE /\ out_file' = [state |-> "partial", content |-> <<>>]
          /\ Raise("write",
                   Exc("TypeError", "Object of type Timestamp is not JSON serializable", ""))
  /\ UNCHANGED <<env, box_file_id, box_user_id, lo_name, sheet_name, config, buf,
                 df, df_lo, current_year, counts_by_status,
                 closed_count_this_year, clearing_rows, awaiting_ctc_rows,
                 stdout, stderr, exit_status>>

\* print(f"Wrote {out_path} (rows: {len(df_lo)})"); main() returns
PrintSuccess ==
  /\ pc = "print"
  /\ stdout' = Append(stdout, [line |-> "Wrote", rows |-> Len(df_lo.rows)])
  /\ exit_status' = "zero"
  /\ Goto("print", "done")
  /\ UNCHANGED <<env, box_file_id, box_user_id, lo_name, sheet_name, config, buf,
                 df, df_lo, current_year, counts_by_status,
                 closed_count_this_year, clearing_rows, awaiting_ctc_rows,
                 out_file, stderr>>

\* the handler without its `raise`: the error is printed and swallowed
HandleErrorSwallowed ==
  /\ pc = "raised"
  /\ stderr' = Append(stderr, err)
  /\ exit_status' = "zero"
  /\ pc' = "exited"
  /\ UNCHANGED <<env, box_file_id, box_user_id, lo_name, sheet_name, config, buf,
                 df, df_lo, current_year, counts_by_status,
                 closed_count_this_year, clearing_rows, awaiting_ctc_rows,
                 out_file, stdout, err, trace>>

\* except Exception as e: print("ERROR:", str(e), file=sys.stderr); raise
HandleError ==
  /\ pc = "raised"
  /\ stderr' = Append(stderr, err)
  /\ exit_status' = "nonzero"
  /\ pc' = "exited"
  /\ UNCHANGED <<env, box_file_id, box_user_id, lo_name, sheet_name, config, buf,
                 df, df_lo, current_year, counts_by_status,
                 closed_count_this_year, clearing_rows, awaiting_ctc_rows,
                 out_file, stdout, err, trace>>

Next ==
  \/ ReadFileId
  \/ ReadUserId
  \/ ReadOptions
  \/ ParseBoxConfig
  \/ Authenticate
  \/ Download
  \/ ReadExcel
  \/ NormalizeCols
  \/ CheckColumns
  \/ FilterLO
  \/ ParseClosing
  \/ CountsByStatus
  \/ ClosedCount
  \/ DetailRows
  \/ WriteOutput
  \/ PrintSuccess
  \/ HandleError

Spec == Init /\ [][Next]_vars

\* ------------------------------------------------------------ properties
Failed == pc \in {"raised", "exited"}

\* the step at which the exception in flight was raised
FailedAt == trace[Len(trace)]

\* the step has been entered
Ran(step) == \E i \in 1..Len(trace) : trace[i] = step

\* the step has run to its end without raising
Completed(step) ==
  \E i \in 1..Len(trace) : trace[i] = step /\ (i < Len(trace) \/ ~Failed)

RECURSIVE SumOver(_, _)
SumOver(f, S) ==
  IF S = {} THEN 0
  ELSE LET k == CHOOSE x \in S : TRUE IN f[k] + SumOver(f, S \ {k})

AggregationSteps == {"filter", "closing", "counts", "closed", "details"}

\* the rows kept by the identity filter, with the cells as loaded
Filtered == LoFilter(df, lo_name)

IsClosedCell(c) == Lower(Strip(AsTypeStr(c))) = sClosedLower

ParsesToYear(c, y) == ToDatetimeCell(c).t = "ts" /\ ToDatetimeCell(c).y = y

\* C1: with the status column among the trimmed column names aggregation
\* never raises; without it aggregation raises the schema error and
\* produces no result.
C1_AggregateRaisesOnlySchemaError ==
  (df.kind = "frame" /\ Ran("check")) =>
    IF HasCol(df, col_status)
    THEN ~(Failed /\ FailedAt \in AggregationSteps \cup {"check"})
    ELSE /\ Failed
         /\ FailedAt = "check"
         /\ err = SchemaError
         /\ counts_by_status = <<>>
         /\ out_file.state = "untouched"

\* C2: the values of counts_by_status sum to the number of rows kept by the
\* identity filter, and the rows whose status cell is missing are counted
\* under the empty-string key.
C2_CountsSumToRows ==
  Completed("counts") =>
    LET st == Column(df_lo, col_status)
        missing == {r \in 1..Len(st) : st[r].t = "nan"}
    IN /\ SumOver(counts_by_status, DOMAIN counts_by_status) = Len(df_lo.rows)
       /\ missing # {} =>
            /\ <<>> \in DOMAIN counts_by_status
            /\ counts_by_status[<<>>] >= Cardinality(missing)

C2_Witness ==
  /\ Completed("counts")
  /\ FilterApplies(df, lo_name)
  /\ Len(df_lo.rows) = 1
  /\ Len(df.rows) = 2
  /\ <<>> \in DOMAIN counts_by_status

\* C3: without the closing-date column closed_count_current_year is null;
\* with it, it is an integer at most the sum of the counts_by_status
\* entries whose key is "closed" case-insensitively.
C3_ClosedCountNullOrBounded ==
  Completed("closed") =>
    IF HasCol(df, col_closing)
    THEN /\ closed_count_this_year.some
         /\ closed_count_this_year.v <=
              SumOver(counts_by_status,
                      {k \in DOMAIN counts_by_status : Lower(k) = sClosedLower})
    ELSE closed_count_this_year = None

C3_Witness ==
  /\ Completed("closed")
  /\ HasCol(df, col_closing)
  /\ closed_count_this_year = Some(1)
  /\ SumOver(counts_by_status,
             {k \in DOMAIN counts_by_status : Lower(k) = sClosedLower}) = 2

\* C4: with the closing-date column present closed_count_current_year is
\* the number of kept rows whose trimmed status is "closed"
\* case-insensitively and whose closing-date cell parses to a date of the
\* current year; a missing or unparsable date cell is not counted and no
\* cell value makes the date steps raise.
C4_ClosedCountExact ==
  /\ (Completed("closed") /\ HasCol(df, col_closing)) =>
       LET st == Column(Filtered, col_status)
           cd == Column(Filtered, col_closing)
       IN closed_count_this_year =
            Some(Cardinality({r \in 1..Len(Filtered.rows) :
                                IsClosedCell(st[r]) /\ ParsesToYear(cd[r], current_year)}))
  /\ (Failed /\ FailedAt \in {"closing", "closed"}) => ~IsSeries(df, col_closing)

C4_Witness ==
  /\ Completed("closed")
  /\ HasCol(df, col_closing)
  /\ closed_count_this_year = Some(1)
  /\ LET st == Column(Filtered, col_status)
         cd == Column(Filtered, col_closing)
     IN /\ \E r \in 1..Len(st) :
             IsClosedCell(st[r]) /\ cd[r].t = "str" /\ ParsesToYear(cd[r], current_year)
        /\ \E r \in 1..Len(st) :
             IsClosedCell(st[r]) /\ cd[r].t = "str" /\ ToDatetimeCell(cd[r]) = NaT

\* C5: filtering the already filtered table by the same value keeps the
\* same rows, and the aggregation over it gives the same result.
C5_FilterIdempotent ==
  /\ Completed("filter") => LoFilter(df_lo, lo_name) = df_lo
  /\ Completed("details") =>
       LET again == LoFilter(df_lo, lo_name)
       IN /\ CountsOf(again) = counts_by_status
          /\ ClosedCountOf(again, current_year) = closed_count_this_year
          /\ DetailRowsOf(again, sClearingLower) = clearing_rows
          /\ DetailRowsOf(again, sAwaitingLower) = awaiting_ctc_rows

C5_Witness ==
  /\ Completed("details")
  /\ FilterApplies(df, lo_name)
  /\ Len(df_lo.rows) = 1
  /\ Len(df.rows) = 2

\* C6: with a filter value but no owner column, and with no or a blank filter
\* value, the filter step raises nothing and removes no row; with no or a
\* blank filter value the output reports the filter as absent.
C6_NoOwnerOrNoFilterKeepsAll ==
  LET noFilter == ~env.LO_NAME.set \/ Strip(env.LO_NAME.v) = <<>>
      noOwner == df.kind = "frame" /\ ~HasCol(df, col_lo)
  IN /\ (Ran("filter") /\ (noFilter \/ noOwner)) =>
          /\ Completed("filter")
          /\ Len(df_lo.rows) = Len(df.rows)
          /\ pc = "closing" => df_lo = df
          /\ Completed("closing") =>
               df_lo = IF HasCol(df, col_closing)
                       THEN WithDatetime(df, col_closing) ELSE df
     /\ (noFilter /\ out_file.state = "written") =>
          ~out_file.content.meta.loan_officer_filter.some

C6_Witness ==
  /\ Completed("details")
  /\ lo_name # <<>>
  /\ ~HasCol(df, col_lo)
  /\ Len(df_lo.rows) = 2

\* C7: the detail rows of a focus status are the kept rows with that status,
\* each with every column at its original cell value, missing cells as the
\* empty string, also when the closing-date column has been parsed.
C7_DetailRowsKeepOriginalCells ==
  Completed("details") =>
    /\ clearing_rows = DetailRowsOf(Filtered, sClearingLower)
    /\ awaiting_ctc_rows = DetailRowsOf(Filtered, sAwaitingLower)

\* the variable is missing from the environment or set to the empty text
AbsentOrEmpty(var) == ~var.set \/ Len(var.v) = 0

PathLike(raw) == EndsWith(raw, dotJson) \/ StartsWith(raw, Slash)

ConfigErrorOK ==
  \/ /\ err.type = "RuntimeError"
     /\ err.msg = "Missing required env var"
     /\ \/ err.key = "BOX_FILE_ID" /\ AbsentOrEmpty(env.BOX_FILE_ID)
        \/ err.key = "BOX_USER_ID" /\ AbsentOrEmpty(env.BOX_USER_ID)
        \/ err.key = "BOX_CONFIG_JSON" /\ AbsentOrEmpty(env.cfg.var)
  \/ /\ err.type = "RuntimeError"
     /\ err.msg = "BOX_CONFIG_JSON is not valid JSON"
     /\ ~IsValidJson(env.cfg.var.v)

FailsFastWithConfigError ==
  /\ ~Ran("auth")
  /\ pc \in {"file_id", "user_id", "options", "config", "raised", "exited"}
  /\ Ran("config") => Failed
  /\ Failed => ConfigErrorOK
  /\ out_file.state = "untouched"
  /\ buf = <<>> /\ df = NoFrame /\ df_lo = NoFrame

\* C8 as stated: a missing or empty identifier, or a credentials value that
\* is not valid JSON, makes the run fail with a configuration error before
\* authentication, fetch, parse, aggregation and the writing of the output.
C8_BadConfigFailsFast ==
  (\/ AbsentOrEmpty(env.BOX_FILE_ID)
   \/ AbsentOrEmpty(env.BOX_USER_ID)
   \/ AbsentOrEmpty(env.cfg.var)
   \/ ~IsValidJson(env.cfg.var.v)) => FailsFastWithConfigError

\* C8 amended: a missing or empty identifier, or a credentials value that is
\* neither valid JSON nor the path of an existing file, makes the run fail
\* with a configuration error before authentication, fetch, parse,
\* aggregation and the writing of the output; the path of an existing file
\* whose content is not valid JSON stops the run at the same place with the
\* JSON decoder's error.
C8_BadConfigFailsFastUnlessFile ==
  LET raw == Strip(env.cfg.var.v)
      fromFile == ~AbsentOrEmpty(env.cfg.var) /\ PathLike(raw) /\ PathExists(raw)
      missing == \/ AbsentOrEmpty(env.BOX_FILE_ID)
                 \/ AbsentOrEmpty(env.BOX_USER_ID)
                 \/ AbsentOrEmpty(env.cfg.var)
  IN /\ (missing \/ (~fromFile /\ ~IsValidJson(env.cfg.var.v)))
          => FailsFastWithConfigError
     /\ (~missing /\ fromFile /\ ~IsValidJson(FileContent(raw))) =>
          /\ ~Ran("auth")
          /\ out_file.state = "untouched"
          /\ Ran("config") => (Failed /\ err.type = "JSONDecodeError")

C8_Witness ==
  /\ pc = "exited"
  /\ FailedAt = "config"
  /\ err.msg = "BOX_CONFIG_JSON is not valid JSON"
  /\ ~AbsentOrEmpty(env.cfg.var)
  /\ stderr = <<err>>

\* C9: with no sheet selector the loader returns the first sheet as a single
\* table, which the pipeline then normalizes and aggregates.
C9_DefaultSheetIsOneTable ==
  (Completed("read_excel") /\ ~env.SHEET_NAME.set) =>
    /\ df.kind = "frame"
    /\ ~(Failed /\ FailedAt = "normalize")

StepOrder ==
  <<"file_id", "user_id", "options", "config", "auth", "download",
    "read_excel", "normalize", "check", "filter", "closing", "counts",
    "closed", "details", "write", "print">>

\* C10: data.json is touched only by the last step, after every earlier step
\* has completed; a run that fails earlier leaves it untouched, prints the
\* error to the error stream and exits non-zero; the confirmation line with
\* the row count is printed only after the file has been written.
C10_OutputWrittenLast ==
  /\ out_file.state # "untouched" =>
       /\ Len(trace) >= 15
       /\ SubSeq(trace, 1, 15) = SubSeq(StepOrder, 1, 15)
  /\ (Failed /\ FailedAt # "write") => out_file.state = "untouched"
  /\ pc = "raised" => exit_status = "running" /\ stderr = <<>>
  /\ pc = "exited" => exit_status = "nonzero" /\ stderr = <<err>>
  /\ exit_status = "zero" => pc = "done"
  /\ \A i \in 1..Len(stdout) :
       stdout[i].line = "Wrote" =>
         /\ out_file.state = "written"
         /\ stdout[i].rows = Len(df_lo.rows)
         /\ trace = StepOrder

C10_Witness ==
  /\ pc = "exited"
  /\ FailedAt = "check"
  /\ err = SchemaError
  /\ out_file.state = "untouched"
  /\ exit_status = "nonzero"
====
